---- MODULE Spec2Model ----
(***************************************************************************)
(* A model of the diff parsing and review-response pipeline of codereview: *)
(*   codereview/reviewer.py   call_llm, parse_review_response, review_code *)
(*   codereview/git_utils.py  parse_diff                                   *)
(*   codereview/cli.py        run_review                                   *)
(* Text is modelled by TLA+ strings (Len, SubSeq and \o act on them as on  *)
(* sequences of characters); a decoded JSON document is a tagged record    *)
(* [t |-> type, v |-> payload].                                            *)
(***************************************************************************)
EXTENDS Integers, Sequences, FiniteSets, TLC

VARIABLES
    cache,      \* _response_cache: the dict, as its entries in insertion order
    call,       \* the operation invoked last and its arguments
    outcome,    \* what that operation did: returned a value or raised
    posts,      \* HTTP attempts the operation made on the wire
    ncalls,     \* operations invoked so far
    review_prompt,  \* the prompt review_code built in that operation, "" when none
    exit_status,    \* the status sys.exit was called with, NoExit when it was not
    threads     \* the threads that run call_llm in one process: where each one is
                \* in call_llm and its locals; what guards the cache, if anything

vars == <<cache, call, outcome, posts, ncalls, review_prompt, exit_status, threads>>

(***************************************************************************)
(* Bounds of the exploration.                                              *)
(***************************************************************************)
MaxCalls == 2
MaxCacheCalls == 52

\* lines of a diff text
MaxDiffLines == 3

(***************************************************************************)
(* Python str operations.                                                  *)
(***************************************************************************)
\* s[i:i+1], counting from 1: the character at i, "" beyond the ends
CharAt(s, i) == IF 1 <= i /\ i <= Len(s) THEN SubSeq(s, i, i) ELSE ""

StartsWith(s, p) == Len(s) >= Len(p) /\ SubSeq(s, 1, Len(p)) = p

IsSpace(c) == c \in {" ", "\n", "\t", "\r"}

RECURSIVE LStrip(_)
LStrip(s) == IF Len(s) > 0 /\ IsSpace(CharAt(s, 1)) THEN LStrip(Tail(s)) ELSE s

RECURSIVE RStrip(_)
RStrip(s) ==
    IF Len(s) > 0 /\ IsSpace(CharAt(s, Len(s)))
    THEN RStrip(SubSeq(s, 1, Len(s) - 1))
    ELSE s

\* str.strip()
Strip(s) == RStrip(LStrip(s))

\* Mutant of RStripChar: nothing is stripped.
RStripNothing(s, c) == s

\* str.rstrip(chars) for a single character
RECURSIVE RStripChar(_, _)
RStripChar(s, c) ==
    IF Len(s) > 0 /\ CharAt(s, Len(s)) = c
    THEN RStripChar(SubSeq(s, 1, Len(s) - 1), c)
    ELSE s

\* The least number of a non-empty set of numbers.
MinOf(S) == CHOOSE x \in S : \A y \in S : x <= y

MaxOf(S) == CHOOSE x \in S : \A y \in S : y <= x

\* str.find(sub, i): the index (from 1) of the first occurrence at or after i,
\* 0 when there is none
FindFrom(s, sub, i) ==
    LET hits == {j \in i..(Len(s) - Len(sub) + 1) : SubSeq(s, j, j + Len(sub) - 1) = sub}
    IN  IF hits = {} THEN 0 ELSE MinOf(hits)

Find(s, sub) == FindFrom(s, sub, 1)

\* sub in s
Contains(s, sub) == Find(s, sub) > 0

\* str.split(sep): the pieces between the non-overlapping occurrences of sep
RECURSIVE Split(_, _)
Split(s, sep) ==
    LET i == Find(s, sep) IN
    IF i = 0 THEN <<s>>
    ELSE <<SubSeq(s, 1, i - 1)>> \o Split(SubSeq(s, i + Len(sep), Len(s)), sep)

\* sep.join(parts)
RECURSIVE Join(_, _)
Join(parts, sep) ==
    IF Len(parts) = 0 THEN ""
    ELSE IF Len(parts) = 1 THEN parts[1]
    ELSE parts[1] \o sep \o Join(Tail(parts), sep)

\* Mutant of Prefix: one character too many.
PrefixOffByOne(s, n) == SubSeq(s, 1, IF Len(s) < n + 1 THEN Len(s) ELSE n + 1)

\* s[:n]
Prefix(s, n) == SubSeq(s, 1, IF Len(s) < n THEN Len(s) ELSE n)

Digit(d) == SubSeq("0123456789", d + 1, d + 1)

\* str(n) of an int
RECURSIVE NatToStr(_)
NatToStr(n) == IF n < 10 THEN Digit(n) ELSE NatToStr(n \div 10) \o Digit(n % 10)

IntToStr(n) == IF n < 0 THEN "-" \o NatToStr(-n) ELSE NatToStr(n)

(***************************************************************************)
(* Decoded JSON values (what json.loads and Response.json return).         *)
(***************************************************************************)
JNull == [t |-> "null", v |-> 0]
JBool(b) == [t |-> "bool", v |-> b]
JInt(n) == [t |-> "int", v |-> n]
JStr(s) == [t |-> "str", v |-> s]
JArr(items) == [t |-> "arr", v |-> items]
\* an object: its members <<key, value>> in document order, keys distinct
JObj(members) == [t |-> "obj", v |-> members]

ObjHas(o, k) == \E i \in 1..Len(o.v) : o.v[i][1] = k

ObjGet(o, k) == o.v[CHOOSE i \in 1..Len(o.v) : o.v[i][1] = k][2]

\* bool(x) of a decoded value
Truthy(x) ==
    CASE x.t = "null" -> FALSE
      [] x.t = "bool" -> x.v
      [] x.t = "int" -> x.v # 0
      [] x.t = "str" -> x.v # ""
      [] x.t = "float" -> \/ x.v.sp # "" \/ x.v.whole # 0
                          \/ \E i \in 1..Len(x.v.frac) : CharAt(x.v.frac, i) # "0"
      [] OTHER -> Len(x.v) > 0

\* x[key] for a string key: the value, or the exception Python raises
GetItem(x, key) ==
    IF x.t = "obj"
    THEN IF ObjHas(x, key)
         THEN [exc |-> "", v |-> ObjGet(x, key)]
         ELSE [exc |-> "KeyError", v |-> JNull]
    ELSE [exc |-> "TypeError", v |-> JNull]

\* x[0]
GetFirst(x) ==
    CASE x.t = "arr" ->
            IF Len(x.v) > 0 THEN [exc |-> "", v |-> x.v[1]]
            ELSE [exc |-> "IndexError", v |-> JNull]
      [] x.t = "str" ->
            IF Len(x.v) > 0 THEN [exc |-> "", v |-> JStr(CharAt(x.v, 1))]
            ELSE [exc |-> "IndexError", v |-> JNull]
      [] x.t = "obj" -> [exc |-> "KeyError", v |-> JNull]
      [] OTHER -> [exc |-> "TypeError", v |-> JNull]

\* a float: sign, integer digits, fraction digits, decimal exponent; or the
\* special value "nan" or "inf" (sp)
JFloat(neg, whole, frac, exp, sp) ==
    [t |-> "float", v |-> [neg |-> neg, whole |-> whole, frac |-> frac, exp |-> exp, sp |-> sp]]

\* d[key] = value on an object: a present key keeps its place
ObjSet(members, key, value) ==
    IF \E i \in 1..Len(members) : members[i][1] = key
    THEN [i \in 1..Len(members) |->
            IF members[i][1] = key THEN <<key, value>> ELSE members[i]]
    ELSE Append(members, <<key, value>>)

(***************************************************************************)
(* json.loads: a recursive-descent reading of JSON text.  A result is      *)
(* [ok, v, pos]: whether a value was read, the value, and the index after. *)
(***************************************************************************)
JsonWs == {" ", "\t", "\n", "\r"}

Digits == {"0", "1", "2", "3", "4", "5", "6", "7", "8", "9"}

NoParse == [ok |-> FALSE, v |-> JNull, pos |-> 0]

Parsed(v, pos) == [ok |-> TRUE, v |-> v, pos |-> pos]

\* The first index from i on whose character is not in chars.
SkipOver(s, i, chars) ==
    LET stops == {j \in i..Len(s) : CharAt(s, j) \notin chars}
    IN  IF stops # {} THEN MinOf(stops) ELSE IF i > Len(s) THEN i ELSE Len(s) + 1

SkipWs(s, i) == SkipOver(s, i, JsonWs)

SkipDigits(s, i) == SkipOver(s, i, Digits)

DigitVal(c) == Find("0123456789", c) - 1

RECURSIVE StrToNat(_)
StrToNat(s) ==
    IF s = "" THEN 0
    ELSE 10 * StrToNat(SubSeq(s, 1, Len(s) - 1)) + DigitVal(CharAt(s, Len(s)))

\* The body of a string literal with its escapes replaced.
RECURSIVE Unescape(_)
Unescape(b) ==
    LET k == FindFrom(b, "\\", 1)
        e == CharAt(b, k + 1)
        rest == Unescape(SubSeq(b, k + 2, Len(b)))
        plain == CASE e = "n" -> "\n" [] e = "t" -> "\t" [] e = "r" -> "\r" [] OTHER -> e
    IN  IF k = 0 THEN [ok |-> TRUE, v |-> b]
        ELSE IF e \notin {"\"", "\\", "/", "n", "t", "r"} \/ ~rest.ok
        THEN [ok |-> FALSE, v |-> ""]
        ELSE [ok |-> TRUE, v |-> SubSeq(b, 1, k - 1) \o plain \o rest.v]

\* The string literal whose opening quote is at i - 1: it ends at the first
\* quote preceded by an even run of backslashes; a raw control character in
\* it, or an unknown escape, is an error.
ScanString(s, i) ==
    LET slashes(j) ==
            j - 1 - MaxOf({k \in (i - 1)..(j - 1) : k = i - 1 \/ CharAt(s, k) # "\\"})
        ends == {j \in i..Len(s) : CharAt(s, j) = "\"" /\ slashes(j) % 2 = 0}
        close == MinOf(ends)
        body == SubSeq(s, i, close - 1)
        text == Unescape(body)
    IN  IF ends = {} THEN NoParse
        ELSE IF \E j \in i..(close - 1) : CharAt(s, j) \in {"\n", "\t", "\r"} THEN NoParse
        ELSE IF ~text.ok THEN NoParse
        ELSE Parsed(JStr(text.v), close + 1)

\* sys.float_info.max_10_exp
MAX_10_EXP == 308

\* A number: -?(0|[1-9]\d*)(\.\d+)?([eE][-+]?\d+)?
ScanNumber(s, i) ==
    LET neg == CharAt(s, i) = "-"
        a == IF neg THEN i + 1 ELSE i
        b == IF CharAt(s, a) = "0" THEN a + 1 ELSE SkipDigits(s, a)
        hasFrac == CharAt(s, b) = "." /\ CharAt(s, b + 1) \in Digits
        c == IF hasFrac THEN SkipDigits(s, b + 1) ELSE b
        signed == CharAt(s, c + 1) \in {"+", "-"}
        d == IF signed THEN c + 2 ELSE c + 1
        hasExp == CharAt(s, c) \in {"e", "E"} /\ CharAt(s, d) \in Digits
        f == IF hasExp THEN SkipDigits(s, d) ELSE c
        whole == StrToNat(SubSeq(s, a, b - 1))
        frac == IF hasFrac THEN SubSeq(s, b + 1, c - 1) ELSE ""
        expo == IF hasExp THEN StrToNat(SubSeq(s, d, f - 1)) ELSE 0
        down == hasExp /\ signed /\ CharAt(s, c + 1) = "-"
        \* float() of digits beyond the range of a double is inf
        huge == /\ ~down /\ expo > MAX_10_EXP
                /\ (whole # 0 \/ \E k \in 1..Len(frac) : CharAt(frac, k) # "0")
    IN  IF b = a THEN NoParse
        ELSE IF ~hasFrac /\ ~hasExp
        THEN Parsed(JInt(IF neg THEN -whole ELSE whole), b)
        ELSE IF huge THEN Parsed(JFloat(neg, 0, "", 0, "inf"), f)
        ELSE Parsed(JFloat(neg, whole, frac, IF down THEN -expo ELSE expo, ""), f)

RECURSIVE ScanValue(_, _)
RECURSIVE ScanItems(_, _, _)
RECURSIVE ScanMembers(_, _, _)

\* The elements of an array from the value at i on.
ScanItems(s, i, acc) ==
    LET r == ScanValue(s, i)
        k == SkipWs(s, r.pos)
    IN  IF ~r.ok THEN NoParse
        ELSE IF CharAt(s, k) = "," THEN ScanItems(s, SkipWs(s, k + 1), Append(acc, r.v))
        ELSE IF CharAt(s, k) = "]" THEN Parsed(JArr(Append(acc, r.v)), k + 1)
        ELSE NoParse

\* The members of an object from the key at i on.
ScanMembers(s, i, acc) ==
    LET key == IF CharAt(s, i) = "\"" THEN ScanString(s, i + 1) ELSE NoParse
        colon == SkipWs(s, key.pos)
        r == ScanValue(s, SkipWs(s, colon + 1))
        k == SkipWs(s, r.pos)
    IN  IF ~key.ok \/ CharAt(s, colon) # ":" THEN NoParse
        ELSE IF ~r.ok THEN NoParse
        ELSE IF CharAt(s, k) = ","
        THEN ScanMembers(s, SkipWs(s, k + 1), ObjSet(acc, key.v.v, r.v))
        ELSE IF CharAt(s, k) = "}" THEN Parsed(JObj(ObjSet(acc, key.v.v, r.v)), k + 1)
        ELSE NoParse

ScanValue(s, i) ==
    LET c == CharAt(s, i)
        word(w) == SubSeq(s, i, i + Len(w) - 1) = w
        is(w) == i + Len(w) - 1 <= Len(s) /\ word(w)
    IN  CASE c = "{" ->
                IF CharAt(s, SkipWs(s, i + 1)) = "}"
                THEN Parsed(JObj(<< >>), SkipWs(s, i + 1) + 1)
                ELSE ScanMembers(s, SkipWs(s, i + 1), << >>)
          [] c = "[" ->
                IF CharAt(s, SkipWs(s, i + 1)) = "]"
                THEN Parsed(JArr(<< >>), SkipWs(s, i + 1) + 1)
                ELSE ScanItems(s, SkipWs(s, i + 1), << >>)
          [] c = "\"" -> ScanString(s, i + 1)
          [] is("true") -> Parsed(JBool(TRUE), i + 4)
          [] is("false") -> Parsed(JBool(FALSE), i + 5)
          [] is("null") -> Parsed(JNull, i + 4)
          [] is("NaN") -> Parsed(JFloat(FALSE, 0, "", 0, "nan"), i + 3)
          [] is("Infinity") -> Parsed(JFloat(FALSE, 0, "", 0, "inf"), i + 8)
          [] is("-Infinity") -> Parsed(JFloat(TRUE, 0, "", 0, "inf"), i + 9)
          [] c = "-" \/ c \in Digits -> ScanNumber(s, i)
          [] OTHER -> NoParse

\* json.loads(s): [ok |-> FALSE] stands for JSONDecodeError
JsonLoads(s) ==
    LET whole(r) == IF r.ok /\ SkipWs(s, r.pos) = Len(s) + 1 THEN r ELSE NoParse
    IN  whole(ScanValue(s, SkipWs(s, 1)))

(***************************************************************************)
(* Results of an operation.                                                *)
(***************************************************************************)
Returned(v) ==
    [kind |-> "return", value |-> v, exc |-> "", msg |-> "", logged |-> FALSE]

Raised(e, m, l) ==
    [kind |-> "raise", value |-> JNull, exc |-> e, msg |-> m, logged |-> l]

(***************************************************************************)
(* The configuration dict: each key is absent or set to a string.          *)
(***************************************************************************)
Absent == [set |-> FALSE, val |-> ""]

Set(s) == [set |-> TRUE, val |-> s]

\* config.get(key, default)
ConfigGet(config, key, default) ==
    IF config[key].set THEN config[key].val ELSE default

DEFAULT_BASE_URL == "https://api.openai.com/v1"

DEFAULT_MODEL == "gpt-3.5-turbo"

DEFAULT_MAX_TOKENS == "2048"

DEFAULT_TEMPERATURE == "0.2"

(***************************************************************************)
(* The response cache: a dict, which keeps its keys in insertion order.    *)
(***************************************************************************)
MAX_CACHE_SIZE == 50

\* hashlib.sha256(...).hexdigest(): a digest, taken to be free of collisions
Sha256(raw) == "sha256(" \o raw \o ")"

_get_cache_key(prompt, model) == Sha256(model \o ":" \o prompt)

\* Mutant of CacheHas: the cache is never found to hold a key.
CacheNeverHas(d, key) == FALSE

\* key in d
CacheHas(d, key) == \E i \in 1..Len(d) : d[i].key = key

\* d[key]
CacheGet(d, key) == d[CHOOSE i \in 1..Len(d) : d[i].key = key].value

\* Mutant of CacheDelOldest: the newest entry goes.
CacheDelNewest(d) == SubSeq(d, 1, Len(d) - 1)

\* del d[next(iter(d))]
CacheDelOldest(d) == Tail(d)

\* d[key] = value: a new key goes last, a present key keeps its place
CacheSet(d, key, value) ==
    IF CacheHas(d, key)
    THEN [i \in 1..Len(d) |->
            IF d[i].key = key THEN [key |-> key, value |-> value] ELSE d[i]]
    ELSE Append(d, [key |-> key, value |-> value])

CacheKeys(d) == [i \in 1..Len(d) |-> d[i].key]

(***************************************************************************)
(* _validate_api_config                                                    *)
(***************************************************************************)
_validate_api_config(config) ==
    LET base_url == RStripChar(ConfigGet(config, "base_url", DEFAULT_BASE_URL), "/")
        model == ConfigGet(config, "model", DEFAULT_MODEL)
        api_key == ConfigGet(config, "api_key", "")
        ok == [exc |-> "", msg |-> "", base_url |-> base_url, model |-> model,
               api_key |-> api_key]
    IN  IF base_url = ""
        THEN [ok EXCEPT !.exc = "RuntimeError", !.msg = "No API base URL configured"]
        ELSE IF model = ""
        THEN [ok EXCEPT !.exc = "RuntimeError", !.msg = "No model configured"]
        ELSE ok

(***************************************************************************)
(* _build_payload: int() and float() of the configured limits raise        *)
(* ValueError on text that is no number.                                   *)
(***************************************************************************)
IsDigits(s) == Len(s) > 0 /\ \A i \in 1..Len(s) : CharAt(s, i) \in
    {"0", "1", "2", "3", "4", "5", "6", "7", "8", "9"}

\* int(s) accepts an optionally signed run of digits, blanks around it
IntAccepts(s) ==
    LET x == Strip(s)
        y == IF StartsWith(x, "-") \/ StartsWith(x, "+") THEN Tail(x) ELSE x
    IN  IsDigits(y)

\* float(s) accepts what int accepts, and digits with one decimal point
FloatAccepts(s) ==
    LET x == Strip(s)
        y == IF StartsWith(x, "-") \/ StartsWith(x, "+") THEN Tail(x) ELSE x
        parts == Split(y, ".")
    IN  \/ IsDigits(y)
        \/ /\ Len(parts) = 2
           /\ parts[1] \o parts[2] # ""
           /\ IsDigits(parts[1] \o parts[2])

_build_payload(prompt, model, config) ==
    LET max_tokens == ConfigGet(config, "max_tokens", DEFAULT_MAX_TOKENS)
        temperature == ConfigGet(config, "temperature", DEFAULT_TEMPERATURE)
    IN  IF ~IntAccepts(max_tokens) \/ ~FloatAccepts(temperature)
        THEN [exc |-> "ValueError", model |-> model, content |-> prompt]
        ELSE [exc |-> "", model |-> model, content |-> prompt]

(***************************************************************************)
(* The HTTP session of _build_session.  What the network and the server do *)
(* at each attempt of one POST is an input: net[i] is the i-th attempt's   *)
(* fate, a network error or a response [status, text, json].  The mounted  *)
(* Retry(total=3, status_forcelist=..., allowed_methods=["POST"]) sends    *)
(* again after an attempt that failed on the network or whose status is in *)
(* the forcelist, while retries are left.                                  *)
(***************************************************************************)
RETRY_TOTAL == 3

STATUS_FORCELIST == {429, 500, 502, 503, 504}

NetError(kind) ==
    [kind |-> kind, status |-> 0, text |-> "", decodes |-> FALSE, json |-> JNull]

\* a response whose body is the JSON text of doc
JsonResponse(status, text, doc) ==
    [kind |-> "resp", status |-> status, text |-> text, decodes |-> TRUE, json |-> doc]

\* a response whose body is no JSON text
TextResponse(status, text) ==
    [kind |-> "resp", status |-> status, text |-> text, decodes |-> FALSE, json |-> JNull]

\* What requests raises once the retries are used up on attempt a:
\* RetryError for a forcelist status, else the error of the last attempt.
ExhaustedError(a) ==
    CASE a.kind = "resp" -> "RetryError"
      [] a.kind = "ssl" -> "SSLError"
      [] a.kind = "connect_timeout" -> "ConnectTimeout"
      [] OTHER -> "ConnectionError"

RECURSIVE SendAttempt(_, _)
SendAttempt(net, i) ==
    LET a == net[i]
        again == a.kind # "resp" \/ a.status \in STATUS_FORCELIST
    IN  IF ~again THEN [posts |-> i, exc |-> "", resp |-> a]
        ELSE IF i <= RETRY_TOTAL THEN SendAttempt(net, i + 1)
        ELSE [posts |-> i, exc |-> ExhaustedError(a), resp |-> a]

\* _session.post(...)
SessionPost(net) == SendAttempt(net, 1)

\* The classes of requests.exceptions an exception is an instance of.
ExcBases(e) ==
    CASE e = "SSLError" -> {"SSLError", "ConnectionError", "RequestException"}
      [] e = "ConnectTimeout" ->
            {"ConnectTimeout", "ConnectionError", "Timeout", "RequestException"}
      [] e = "ReadTimeout" -> {"ReadTimeout", "Timeout", "RequestException"}
      [] e = "ConnectionError" -> {"ConnectionError", "RequestException"}
      [] e = "HTTPError" -> {"HTTPError", "RequestException"}
      [] e = "RetryError" -> {"RetryError", "RequestException"}
      [] e = "JSONDecodeError" -> {"JSONDecodeError", "ValueError", "RequestException"}
      [] OTHER -> {e}

IsInstance(e, cls) == cls \in ExcBases(e)

\* resp.raise_for_status() raises HTTPError for a 4xx or 5xx status
RaisesForStatus(resp) == 400 <= resp.status /\ resp.status < 600

\* bool(e.response): a Response is true when its status is no error status
ResponseTruthy(resp) == ~RaisesForStatus(resp)

(***************************************************************************)
(* _extract_response_text                                                  *)
(***************************************************************************)
_extract_response_text(data) ==
    LET choices == GetItem(data, "choices")
        first == GetFirst(choices.v)
        message == GetItem(first.v, "message")
        content == GetItem(message.v, "content")
        unexpected(e) ==
            Raised("RuntimeError", "Unexpected API response structure: " \o e, FALSE)
    IN  IF choices.exc # "" THEN unexpected(choices.exc)
        ELSE IF ~Truthy(choices.v)
        THEN Raised("RuntimeError", "API returned empty choices array", FALSE)
        ELSE IF first.exc # "" THEN unexpected(first.exc)
        ELSE IF message.exc # "" THEN unexpected(message.exc)
        ELSE IF content.exc # "" THEN unexpected(content.exc)
        ELSE Returned(content.v)

(***************************************************************************)
(* call_llm.  The result: what it returns or raises (res), the path taken, *)
(* the attempts made on the wire and the cache it leaves.                  *)
(***************************************************************************)
\* The except clauses of call_llm, in their order, applied to an exception
\* raised inside the try block.
HandleError(e, resp) ==
    CASE IsInstance(e, "SSLError") ->
            [path |-> "ssl",
             res |-> Raised("RuntimeError", "SSL verification failed", TRUE)]
      [] IsInstance(e, "HTTPError") ->
            LET status == IF ResponseTruthy(resp) THEN resp.status ELSE 0
                body == IF ResponseTruthy(resp) THEN resp.text ELSE "no response"
            IN  [path |-> "http",
                 res |-> Raised("RuntimeError",
                                "API error " \o IntToStr(status) \o ": " \o body, TRUE)]
      [] IsInstance(e, "ConnectionError") ->
            [path |-> "connection",
             res |-> Raised("RuntimeError", "Connection failed", TRUE)]
      [] IsInstance(e, "Timeout") ->
            [path |-> "timeout",
             res |-> Raised("RuntimeError", "Request timed out after 60 seconds", TRUE)]
      [] IsInstance(e, "JSONDecodeError") ->
            [path |-> "invalid_json",
             res |-> Raised("RuntimeError", "API returned invalid JSON", TRUE)]
      [] OTHER ->
            [path |-> "unhandled", res |-> Raised(e, "", FALSE)]

\* The try block from the response on: raise_for_status, json, extract, store.
UseResponse(d, cache_key, resp) ==
    IF RaisesForStatus(resp)
    THEN HandleError("HTTPError", resp) @@ [cache |-> d]
    ELSE IF ~resp.decodes
    THEN HandleError("JSONDecodeError", resp) @@ [cache |-> d]
    ELSE LET content == _extract_response_text(resp.json)
             room == IF Len(d) >= MAX_CACHE_SIZE THEN CacheDelOldest(d) ELSE d
         IN  IF content.kind = "raise"
             THEN [path |-> "shape", res |-> content, cache |-> d]
             ELSE [path |-> "ok", res |-> content,
                   cache |-> CacheSet(room, cache_key, content.value)]

call_llm(d, prompt, config, net) ==
    LET valid == _validate_api_config(config)
        cache_key == _get_cache_key(prompt, valid.model)
        payload == _build_payload(prompt, valid.model, config)
        sent == SessionPost(net)
    IN  IF valid.exc # ""
        THEN [path |-> "config", res |-> Raised(valid.exc, valid.msg, FALSE),
              posts |-> 0, cache |-> d]
        ELSE IF CacheHas(d, cache_key)
        THEN [path |-> "hit", res |-> Returned(CacheGet(d, cache_key)),
              posts |-> 0, cache |-> d]
        ELSE IF payload.exc # ""
        THEN [path |-> "payload", res |-> Raised(payload.exc, "", FALSE),
              posts |-> 0, cache |-> d]
        ELSE IF sent.exc # ""
        THEN HandleError(sent.exc, sent.resp) @@ [posts |-> sent.posts, cache |-> d]
        ELSE UseResponse(d, cache_key, sent.resp) @@ [posts |-> sent.posts]

(***************************************************************************)
(* Response parsing.  A string literal of this module cannot hold the      *)
(* backquote character, so the model writes "~" for it: a markdown fence   *)
(* is "~~~" here, and no text of the model uses "~" for anything else.     *)
(***************************************************************************)
FENCE == "~~~"

JSON_FENCE == FENCE \o "json"

_extract_json_from_response(raw0) ==
    LET raw == Strip(raw0) IN
    IF Contains(raw, JSON_FENCE)
    THEN Strip(Split(Split(raw, JSON_FENCE)[2], FENCE)[1])
    ELSE IF Contains(raw, FENCE)
    THEN Strip(Split(Split(raw, FENCE)[2], FENCE)[1])
    ELSE raw

UPPER == "ABCDEFGHIJKLMNOPQRSTUVWXYZ"

LOWER == "abcdefghijklmnopqrstuvwxyz"

LowerChar(c) == LET k == Find(UPPER, c) IN IF k > 0 THEN CharAt(LOWER, k) ELSE c

\* str.lower() of the characters lo..hi of s
RECURSIVE LowerRange(_, _, _)
LowerRange(s, lo, hi) ==
    IF lo > hi THEN ""
    ELSE IF lo = hi THEN LowerChar(CharAt(s, lo))
    ELSE LowerRange(s, lo, (lo + hi) \div 2) \o LowerRange(s, (lo + hi) \div 2 + 1, hi)

\* str.lower()
Lower(s) == LowerRange(s, 1, Len(s))

\* The values of the enum Severity.
Severity == {"critical", "warning", "info", "style"}

\* Mutant of _parse_severity: the value is looked up as it is written.
_parse_severity_exact(value) ==
    IF value.t = "str" /\ value.v \in Severity THEN value.v ELSE "info"

\* value.lower() raises AttributeError on what is no str, Severity(...) raises
\* ValueError on what is no member: both are caught.
_parse_severity(value) ==
    IF value.t = "str" /\ Strip(Lower(value.v)) \in Severity
    THEN Strip(Lower(value.v))
    ELSE "info"

\* item.get(key, default) on a dict
DictGet(item, key, default) == IF ObjHas(item, key) THEN ObjGet(item, key) ELSE default

\* 10^n, for the small n the model divides by
RECURSIVE Pow10(_)
Pow10(n) == IF n <= 0 THEN 1 ELSE 10 * Pow10(n - 1)

\* The integer digits of a finite float: int(x) truncates toward zero.  An
\* exponent is applied to the integer digits; beyond 8 digits the magnitude
\* is capped, which no clamp into a range of small numbers can tell.
FloatTrunc(f) ==
    LET lead == IF f.exp > 0
                THEN StrToNat(Prefix(f.frac \o "00000000", IF f.exp > 8 THEN 8 ELSE f.exp))
                ELSE 0
        mag == IF f.exp < 0 THEN (IF f.exp < -8 THEN 0 ELSE f.whole \div Pow10(-f.exp))
               ELSE IF f.exp > 8 THEN (IF f.whole # 0 \/ lead # 0 THEN Pow10(9) ELSE 0)
               ELSE f.whole * Pow10(f.exp) + lead
    IN  IF f.neg THEN -mag ELSE mag

\* repr() of a float without exponent
FloatStr(f) ==
    CASE f.sp = "nan" -> "nan"
      [] f.sp = "inf" -> IF f.neg THEN "-inf" ELSE "inf"
      [] OTHER -> (IF f.neg THEN "-" ELSE "") \o NatToStr(f.whole) \o "."
                    \o (IF f.frac = "" THEN "0" ELSE f.frac)

\* str(x) and repr(x) of a decoded value
RECURSIVE PyRepr(_)
RECURSIVE ReprItems(_)
RECURSIVE ReprMembers(_)
PyRepr(x) ==
    CASE x.t = "null" -> "None"
      [] x.t = "bool" -> IF x.v THEN "True" ELSE "False"
      [] x.t = "int" -> IntToStr(x.v)
      [] x.t = "float" -> FloatStr(x.v)
      [] x.t = "str" -> "'" \o x.v \o "'"
      [] x.t = "arr" -> "[" \o ReprItems(x.v) \o "]"
      [] OTHER -> "{" \o ReprMembers(x.v) \o "}"

ReprItems(items) ==
    IF Len(items) = 0 THEN ""
    ELSE IF Len(items) = 1 THEN PyRepr(items[1])
    ELSE PyRepr(items[1]) \o ", " \o ReprItems(Tail(items))

ReprMembers(members) ==
    LET one(m) == "'" \o m[1] \o "': " \o PyRepr(m[2]) IN
    IF Len(members) = 0 THEN ""
    ELSE IF Len(members) = 1 THEN one(members[1])
    ELSE one(members[1]) \o ", " \o ReprMembers(Tail(members))

PyStr(x) == IF x.t = "str" THEN x.v ELSE PyRepr(x)

\* isinstance(x, int): bool is a subclass of int
IsInt(x) == x.t \in {"int", "bool"}

_parse_issue(item) ==
    [severity |-> _parse_severity(DictGet(item, "severity", JStr("info"))),
     title |-> Strip(PyStr(DictGet(item, "title", JStr("Untitled")))),
     description |-> Strip(PyStr(DictGet(item, "description", JStr("")))),
     file |-> Strip(PyStr(DictGet(item, "file", JStr("")))),
     line |-> IF ObjHas(item, "line") /\ IsInt(ObjGet(item, "line"))
              THEN ObjGet(item, "line") ELSE JNull,
     suggestion |-> Strip(PyStr(DictGet(item, "suggestion", JStr(""))))]

ReviewResult(summary, issues, score) ==
    [summary |-> summary, issues |-> issues, score |-> score,
     files_reviewed |-> 0, lines_reviewed |-> 0]

Clamp(n) == IF n < 0 THEN 0 ELSE IF n > 10 THEN 10 ELSE n

\* max(0, min(10, int(score_raw))) if isinstance(score_raw, (int, float)) else 0:
\* int() raises ValueError on nan and OverflowError on inf.
ScoreOf(score_raw) ==
    CASE score_raw.t = "int" -> [exc |-> "", v |-> Clamp(score_raw.v)]
      [] score_raw.t = "bool" -> [exc |-> "", v |-> IF score_raw.v THEN 1 ELSE 0]
      [] score_raw.t = "float" ->
            CASE score_raw.v.sp = "nan" -> [exc |-> "ValueError", v |-> 0]
              [] score_raw.v.sp = "inf" -> [exc |-> "OverflowError", v |-> 0]
              [] OTHER -> [exc |-> "", v |-> Clamp(FloatTrunc(score_raw.v))]
      [] OTHER -> [exc |-> "", v |-> 0]

\* What the comprehension over data.get("issues", []) iterates: the elements of
\* a list, the characters of a str, the keys of a dict; other values are not
\* iterable (TypeError).
IterItems(x) ==
    CASE x.t = "arr" -> [exc |-> "", items |-> x.v]
      [] x.t = "str" -> [exc |-> "", items |-> [i \in 1..Len(x.v) |-> JStr(CharAt(x.v, i))]]
      [] x.t = "obj" -> [exc |-> "", items |-> [i \in 1..Len(x.v) |-> JStr(x.v[i][1])]]
      [] OTHER -> [exc |-> "TypeError", items |-> << >>]

\* Mutant of ParseIssues: the issues come out last element first.
RECURSIVE ParseIssuesBackwards(_)
ParseIssuesBackwards(items) ==
    IF Len(items) = 0 THEN << >>
    ELSE ParseIssuesBackwards(Tail(items))
            \o (IF items[1].t = "obj" THEN <<_parse_issue(items[1])>> ELSE << >>)

RECURSIVE ParseIssues(_)
ParseIssues(items) ==
    IF Len(items) = 0 THEN << >>
    ELSE (IF items[1].t = "obj" THEN <<_parse_issue(items[1])>> ELSE << >>)
            \o ParseIssues(Tail(items))

FALLBACK_LEN == 500

parse_review_response(raw) ==
    LET fallback == [severity |-> "info", title |-> "Raw LLM Output",
                     description |-> Prefix(raw, FALLBACK_LEN), file |-> "",
                     line |-> JNull, suggestion |-> ""]
        \* the body of the try block once json.loads has returned data
        build(data, iter, score) ==
            IF data.t # "obj"
            THEN Raised("AttributeError", "object has no attribute 'get'", FALSE)
            ELSE IF iter.exc # "" THEN Raised(iter.exc, "object is not iterable", FALSE)
            ELSE IF score.exc # ""
            THEN Raised(score.exc, "cannot convert float to integer", FALSE)
            ELSE Returned(ReviewResult(
                    Strip(PyStr(DictGet(data, "summary", JStr("No summary provided.")))),
                    ParseIssues(iter.items), score.v))
        parse(loaded) ==
            IF ~loaded.ok
            THEN Returned(ReviewResult("Failed to parse review response.", <<fallback>>, 0))
            ELSE build(loaded.v, IterItems(DictGet(loaded.v, "issues", JArr(<< >>))),
                       ScoreOf(DictGet(loaded.v, "score", JInt(0))))
    IN  parse(JsonLoads(_extract_json_from_response(raw)))

(***************************************************************************)
(* review_code and run_review.  The templates keep their first line, the   *)
(* doubled braces of their JSON skeleton and their last lines: the code    *)
(* field is the last thing in both.                                        *)
(***************************************************************************)
REVIEW_PROMPT ==
    "You are an expert code reviewer. Review ONLY the code below.\n\n"
    \o "Respond in EXACTLY this JSON format:\n\n"
    \o "{{\n  \"issues\": [\n    {{\n      \"line\": null\n    }}\n  ]\n}}\n\n"
    \o "CODE TO REVIEW:\n{code}"

DIFF_REVIEW_PROMPT ==
    "You are an expert code reviewer reviewing a pull request diff.\n\n"
    \o "Respond in EXACTLY this JSON format:\n\n"
    \o "{{\n  \"issues\": [\n    {{\n      \"line\": null\n    }}\n  ]\n}}\n\n"
    \o "DIFF:\n{code}"

\* s.replace(old, new)
Replace(s, old, new) == Join(Split(s, old), new)

\* template.format(code=code): the field {code} takes the text as it is, and
\* the doubled braces of the literal text become single ones
Format(template, code) ==
    LET parts == Split(template, "{code}")
        literal(x) == Replace(Replace(x, "{{", "{"), "}}", "}")
    IN  Join([i \in 1..Len(parts) |-> literal(parts[i])], code)

\* Mutant of _validate_code_input: only the empty text is rejected.
_validate_nonempty_input(code) ==
    IF code = ""
    THEN [exc |-> "ValueError", msg |-> "No code provided for review", v |-> ""]
    ELSE [exc |-> "", msg |-> "", v |-> Strip(code)]

_validate_code_input(code) ==
    IF code = "" \/ Strip(code) = ""
    THEN [exc |-> "ValueError", msg |-> "No code provided for review", v |-> ""]
    ELSE [exc |-> "", msg |-> "", v |-> Strip(code)]

MAX_CODE_CHARS == 8000

\* parse_review_response(raw_response) of what call_llm returned: raw.strip()
\* of a value that is no str raises AttributeError
ParseContent(content) ==
    IF content.t = "str" THEN parse_review_response(content.v)
    ELSE Raised("AttributeError", "object has no attribute 'strip'", FALSE)

\* review_code.  The result: what it returns or raises (res), the path taken,
\* the attempts on the wire, the cache it leaves and the prompt it built.
review_code(d, code, config, is_diff, net) ==
    LET clean_code == _validate_code_input(code)
        truncated == Prefix(clean_code.v, MAX_CODE_CHARS)
        p == Format(IF is_diff THEN DIFF_REVIEW_PROMPT ELSE REVIEW_PROMPT, truncated)
        finish(sent, result) ==
            IF sent.res.kind = "raise"
            THEN [path |-> sent.path, res |-> sent.res, posts |-> sent.posts,
                  cache |-> sent.cache, prompt |-> p]
            ELSE IF result.kind = "raise"
            THEN [path |-> "parse", res |-> result, posts |-> sent.posts,
                  cache |-> sent.cache, prompt |-> p]
            ELSE [path |-> "reviewed",
                  res |-> Returned([result.value EXCEPT
                            !.lines_reviewed = Len(Split(clean_code.v, "\n"))]),
                  posts |-> sent.posts, cache |-> sent.cache, prompt |-> p]
    IN  IF clean_code.exc # ""
        THEN [path |-> "input", res |-> Raised(clean_code.exc, clean_code.msg, FALSE),
              posts |-> 0, cache |-> d, prompt |-> ""]
        ELSE finish(call_llm(d, p, config, net),
                    ParseContent(call_llm(d, p, config, net).res.value))

\* sys.exit was not called
NoExit == -1

\* run_review: a ValueError or a RuntimeError of review_code is logged and
\* turned into sys.exit(1); any other exception passes through.
run_review(d, code, config, is_diff, net) ==
    LET handle(r) ==
            IF /\ r.res.kind = "raise"
               /\ (IsInstance(r.res.exc, "ValueError") \/ IsInstance(r.res.exc, "RuntimeError"))
            THEN [r EXCEPT !.res.logged = TRUE] @@ [exit |-> 1]
            ELSE r @@ [exit |-> NoExit]
    IN  handle(review_code(d, code, config, is_diff, net))

(***************************************************************************)
(* parse_diff (git_utils.py).  An Optional[str] is [named, name]; the      *)
(* Optional[DiffHunk] of _finalize_hunk is a sequence of no or one hunk.   *)
(***************************************************************************)
NoFile == [named |-> FALSE, name |-> ""]

File(name) == [named |-> TRUE, name |-> name]

DiffHunk(file, content, added, removed) ==
    [file |-> file, old_start |-> 0, new_start |-> 0, content |-> content,
     added_lines |-> added, removed_lines |-> removed]

\* Mutant of _finalize_hunk: `if file`, whatever the content.
_finalize_named_hunk(file, content, added, removed) ==
    IF file.named /\ file.name # ""
    THEN <<DiffHunk(file.name, Join(content, "\n"), added, removed)>>
    ELSE << >>

\* `if file and content`: a file that is None or "" and an empty list are false
_finalize_hunk(file, content, added, removed) ==
    IF file.named /\ file.name # "" /\ Len(content) > 0
    THEN <<DiffHunk(file.name, Join(content, "\n"), added, removed)>>
    ELSE << >>

\* Mutant of ParseLine: the file markers +++ and --- are not told from added
\* and removed lines.
ParseLineByFirstChar(st, line) ==
    LET parts == Split(line, " b/") IN
    IF StartsWith(line, "diff --git")
    THEN [hunks |-> st.hunks \o _finalize_hunk(st.file, st.content, st.added, st.removed),
          file |-> File(IF Len(parts) > 1 THEN parts[Len(parts)] ELSE "unknown"),
          content |-> << >>, added |-> << >>, removed |-> << >>]
    ELSE IF StartsWith(line, "@@")
    THEN [st EXCEPT !.content = Append(@, line)]
    ELSE IF StartsWith(line, "+")
    THEN [st EXCEPT !.added = Append(@, Tail(line)), !.content = Append(@, line)]
    ELSE IF StartsWith(line, "-")
    THEN [st EXCEPT !.removed = Append(@, Tail(line)), !.content = Append(@, line)]
    ELSE [st EXCEPT !.content = Append(@, line)]

\* The body of the loop of parse_diff for one line; st holds the locals.
ParseLine(st, line) ==
    LET parts == Split(line, " b/") IN
    IF StartsWith(line, "diff --git")
    THEN [hunks |-> st.hunks \o _finalize_hunk(st.file, st.content, st.added, st.removed),
          file |-> File(IF Len(parts) > 1 THEN parts[Len(parts)] ELSE "unknown"),
          content |-> << >>, added |-> << >>, removed |-> << >>]
    ELSE IF StartsWith(line, "@@")
    THEN [st EXCEPT !.content = Append(@, line)]
    ELSE IF StartsWith(line, "+") /\ ~StartsWith(line, "+++")
    THEN [st EXCEPT !.added = Append(@, Tail(line)), !.content = Append(@, line)]
    ELSE IF StartsWith(line, "-") /\ ~StartsWith(line, "---")
    THEN [st EXCEPT !.removed = Append(@, Tail(line)), !.content = Append(@, line)]
    ELSE [st EXCEPT !.content = Append(@, line)]

RECURSIVE ParseLines(_, _)
ParseLines(st, lines) ==
    IF Len(lines) = 0 THEN st ELSE ParseLines(ParseLine(st, Head(lines)), Tail(lines))

parse_diff(diff_text) ==
    LET last(st) == st.hunks \o _finalize_hunk(st.file, st.content, st.added, st.removed)
    IN  last(ParseLines([hunks |-> << >>, file |-> NoFile, content |-> << >>,
                         added |-> << >>, removed |-> << >>],
                        Split(diff_text, "\n")))

(***************************************************************************)
(* Inputs of call_llm.                                                     *)
(***************************************************************************)
BaseConfig ==
    [base_url |-> Set("https://h/v1"), model |-> Set("m1"), api_key |-> Set("sk-key"),
     max_tokens |-> Absent, temperature |-> Absent]

Configs ==
    {[BaseConfig EXCEPT !.base_url = b] : b \in {Absent, Set(""), Set("/"), Set("https://h/v1/")}}
    \cup {[BaseConfig EXCEPT !.model = m] : m \in {Absent, Set(""), Set("m2"), Set("m1:p1")}}
    \cup {[BaseConfig EXCEPT !.api_key = k] : k \in {Absent, Set("")}}
    \cup {[BaseConfig EXCEPT !.max_tokens = t] : t \in {Set("512"), Set("lots")}}
    \cup {[BaseConfig EXCEPT !.temperature = t] : t \in {Set("0.7")}}
    \cup {BaseConfig, [BaseConfig EXCEPT !.base_url = Set(""), !.model = Absent]}

Prompts == {"p1", "p2", "p1:p2"}

\* {"choices": [{"message": {"content": content}}]}
ChatDoc(content) ==
    JObj(<< <<"choices",
              JArr(<< JObj(<< <<"message", JObj(<< <<"content", content>> >>)>> >>) >>)>> >>)

Attempts ==
    {NetError("ssl"), NetError("connection"), NetError("connect_timeout"),
     NetError("read_timeout"),
     TextResponse(503, "busy"), TextResponse(429, "slow down"),
     JsonResponse(404, "{\"error\": \"no such model\"}",
                  JObj(<< <<"error", JStr("no such model")>> >>)),
     TextResponse(401, "denied"),
     TextResponse(200, "<html>"), TextResponse(204, ""),
     JsonResponse(200, "r1", ChatDoc(JStr("r1"))),
     JsonResponse(200, "r2", ChatDoc(JStr("r2"))),
     JsonResponse(200, "null content", ChatDoc(JNull)),
     JsonResponse(200, "int content", ChatDoc(JInt(7))),
     JsonResponse(200, "no choices", JObj(<< <<"choices", JArr(<< >>)>> >>)),
     JsonResponse(200, "no keys", JObj(<< >>)),
     JsonResponse(200, "a list", JArr(<< JInt(1) >>)),
     JsonResponse(200, "text choices", JObj(<< <<"choices", JStr("abc")>> >>))}

\* the same fate at every attempt
Always(a) == <<a, a, a, a>>

\* a first, b from the second attempt on
Then(a, b) == <<a, b, b, b>>

Nets ==
    {Always(a) : a \in Attempts}
    \cup {Then(TextResponse(503, "busy"), JsonResponse(200, "r1", ChatDoc(JStr("r1")))),
          Then(NetError("connection"), TextResponse(401, "denied")),
          <<TextResponse(500, "oops"), TextResponse(502, "bad gateway"),
            TextResponse(504, "late"), JsonResponse(200, "r2", ChatDoc(JStr("r2")))>>}

(***************************************************************************)
(* State and operations.                                                   *)
(***************************************************************************)
NoConfig ==
    [base_url |-> Absent, model |-> Absent, api_key |-> Absent,
     max_tokens |-> Absent, temperature |-> Absent]

NoNet == << >>

\* The outcome of an operation that has not run yet.
NoOutcome ==
    [kind |-> "none", value |-> JNull, exc |-> "", msg |-> "", logged |-> FALSE,
     path |-> ""]

\* No thread is running call_llm.
NoThreads == [locked |-> FALSE, holder |-> 0, of |-> << >>]

Call(op, text, config, net, is_diff) ==
    [op |-> op, text |-> text, config |-> config, net |-> net, is_diff |-> is_diff]

Init ==
    /\ cache = << >>
    /\ call = Call("none", "", NoConfig, NoNet, FALSE)
    /\ outcome = NoOutcome
    /\ posts = 0
    /\ ncalls = 0
    /\ review_prompt = ""
    /\ exit_status = NoExit
    /\ threads = NoThreads

\* One invocation of call_llm(prompt, config), the network behaving as net.
DoCallLlm(prompt, config, net) ==
    LET r == call_llm(cache, prompt, config, net) IN
    /\ cache' = r.cache
    /\ call' = Call("call_llm", prompt, config, net, FALSE)
    /\ outcome' = r.res @@ [path |-> r.path]
    /\ posts' = r.posts
    /\ ncalls' = ncalls + 1
    /\ UNCHANGED <<review_prompt, exit_status, threads>>

\* The requests explored: every configuration against a few network fates,
\* and every network fate under the base configuration.
Requests ==
    (Configs \X {Always(JsonResponse(200, "r1", ChatDoc(JStr("r1")))),
                 Always(JsonResponse(200, "r2", ChatDoc(JStr("r2")))),
                 Always(NetError("connection"))})
    \cup ({BaseConfig} \X Nets)

CallLlm ==
    \E prompt \in Prompts, req \in Requests :
        /\ ncalls < MaxCalls
        /\ DoCallLlm(prompt, req[1], req[2])

NextClient == CallLlm

SpecClient == Init /\ [][NextClient]_vars

(***************************************************************************)
(* The cache at capacity.  Prompts are taken in a fixed order, which loses *)
(* no cache shape: a call uses the lowest-numbered prompt not cached, the  *)
(* prompt after the highest-numbered cached one, or the oldest or newest   *)
(* cached prompt.                                                          *)
(***************************************************************************)
PromptNo(k) == "p" \o NatToStr(k)

HasPromptNo(d, k) == CacheHas(d, _get_cache_key(PromptNo(k), "m1"))

CachePrompts(d) ==
    LET N == MaxCacheCalls + 1
        lowest == CHOOSE k \in 1..N :
                    ~HasPromptNo(d, k) /\ \A j \in 1..(k - 1) : HasPromptNo(d, j)
        present == {k \in 1..N : HasPromptNo(d, k)}
        highest == IF present = {} THEN 0
                   ELSE CHOOSE k \in present : \A j \in present : j <= k
        oldest == IF present = {} THEN {}
                  ELSE {k \in present : d[1].key = _get_cache_key(PromptNo(k), "m1")}
    IN  {PromptNo(k) : k \in {lowest, highest + 1} \cup oldest \cup {h \in {highest} : h > 0}}

CacheRequests ==
    {<<BaseConfig, Always(JsonResponse(200, "r1", ChatDoc(JStr("r1"))))>>,
     <<BaseConfig, Always(TextResponse(503, "busy"))>>,
     <<BaseConfig, Always(JsonResponse(200, "no choices", JObj(<< <<"choices", JArr(<< >>)>> >>)))>>,
     <<[BaseConfig EXCEPT !.base_url = Set("")],
       Always(JsonResponse(200, "r1", ChatDoc(JStr("r1"))))>>}

CallLlmInOrder ==
    \E prompt \in CachePrompts(cache), req \in CacheRequests :
        /\ ncalls < MaxCacheCalls
        /\ DoCallLlm(prompt, req[1], req[2])

NextCache == CallLlmInOrder

SpecCache == Init /\ [][NextCache]_vars

(***************************************************************************)
(* Reviews: review_code and run_review on short texts under every request, *)
(* and on texts longer than the limit under a request that succeeds.       *)
(***************************************************************************)
\* s repeated n times
RECURSIVE Rep(_, _)
Rep(s, n) ==
    IF n = 0 THEN ""
    ELSE IF n % 2 = 1 THEN s \o Rep(s, n - 1)
    ELSE Rep(s \o s, n \div 2)

BlankCodes == {"", " \n\t "}

LongCodes ==
    {Rep("a", MAX_CODE_CHARS),
     Rep("a", MAX_CODE_CHARS) \o "TAIL",
     "  " \o Rep("a", MAX_CODE_CHARS - 1) \o "bc",
     Rep("a", MAX_CODE_CHARS - 1) \o " b\n"}

ReviewReply(text) == Always(JsonResponse(200, text, ChatDoc(JStr(text))))

GoodReview == ReviewReply("{\"summary\": \"ok\", \"score\": 7, \"issues\": []}")

ReviewRequests ==
    ({BaseConfig} \X
        {GoodReview, ReviewReply("[]"), ReviewReply("LGTM"),
         Always(JsonResponse(200, "null content", ChatDoc(JNull))),
         Always(JsonResponse(200, "no choices", JObj(<< <<"choices", JArr(<< >>)>> >>))),
         Always(TextResponse(503, "busy")), Always(TextResponse(401, "denied")),
         Always(TextResponse(200, "<html>")),
         Always(NetError("connection")), Always(NetError("read_timeout")),
         Always(NetError("ssl"))})
    \cup ({[BaseConfig EXCEPT !.base_url = Set("")],
           [BaseConfig EXCEPT !.max_tokens = Set("lots")]} \X {GoodReview})

\* <<code, config, net, is_diff>>: a blank text and a text with blanks around
\* it under a request that would succeed and one whose configuration is
\* rejected, a short text under every request, the long texts under a request
\* that succeeds.
ReviewInputs ==
    {<<code, config, GoodReview, is_diff>> :
        code \in BlankCodes \cup {"  x = 1\ny = 2\n\n"},
        config \in {BaseConfig, [BaseConfig EXCEPT !.base_url = Set("")]},
        is_diff \in BOOLEAN}
    \cup {<<"x = 1", req[1], req[2], FALSE>> : req \in ReviewRequests}
    \cup {<<code, BaseConfig, GoodReview, FALSE>> : code \in LongCodes}
    \cup {<<"  " \o Rep("a", MAX_CODE_CHARS - 1) \o "bc", BaseConfig, GoodReview, TRUE>>}

\* The state an operation op leaves, r being what it did.
Done(op, in, r) ==
    /\ ncalls < MaxCalls
    /\ cache' = r.cache
    /\ call' = Call(op, in[1], in[2], in[3], in[4])
    /\ outcome' = r.res @@ [path |-> r.path]
    /\ posts' = r.posts
    /\ ncalls' = ncalls + 1
    /\ review_prompt' = r.prompt
    /\ exit_status' = IF "exit" \in DOMAIN r THEN r.exit ELSE NoExit
    /\ UNCHANGED threads

\* One invocation of review_code(code, config, is_diff).
ReviewCode ==
    \E in \in ReviewInputs :
        Done("review_code", in, review_code(cache, in[1], in[2], in[4], in[3]))

\* One invocation of run_review(code, filename, is_diff, config).
RunReview ==
    \E in \in ReviewInputs :
        Done("run_review", in, run_review(cache, in[1], in[2], in[4], in[3]))

NextReview == ReviewCode \/ RunReview

SpecReview == Init /\ [][NextReview]_vars

(***************************************************************************)
(* parse_review_response applied to raw replies: JSON objects with every   *)
(* kind of score and issues value, JSON texts that are no object, texts    *)
(* that are no JSON, and fenced replies.                                   *)
(***************************************************************************)
ScoreTexts ==
    {"7", "-5", "0", "15", "7.9", "-0.5", "1e999", "NaN", "true", "null",
     "\"abc\"", "[1]", "{}"}

\* An issues array with every kind of severity value: the four members in
\* other cases and with blanks around them, unknown and empty strings, values
\* that are no string, and no severity at all.
SeverityIssues ==
    "[{\"severity\": \"CRITICAL\"}, {\"severity\": \" Warning\\n\"}, {\"severity\": \"\\tstyle \"}, "
    \o "{\"severity\": \"Info\"}, {\"severity\": \"blocker\"}, {\"severity\": \"\"}, "
    \o "{\"severity\": \"warn ing\"}, {\"severity\": 5}, {\"severity\": null}, "
    \o "{\"severity\": true}, {\"severity\": [\"style\"]}, {\"severity\": {\"style\": 1}}, "
    \o "{\"severity\": 1.5}, {\"title\": \"none\"}]"

\* An issues array with every kind of line value.
LineIssues ==
    "[{\"line\": 3}, {\"line\": \"4\"}, {\"line\": 2.5}, {\"line\": true}, {\"line\": null}, "
    \o "{\"title\": \"no line\"}, {\"line\": -3}, {\"line\": 0}, {\"line\": [7]}, {\"line\": 7.0}]"

IssueTexts ==
    {"[]", "null", "3", "\"abc\"", "{\"a\": 1}",
     "[{\"severity\": \"warning\", \"title\": \"T\", \"description\": \"D\", \"line\": 3}]",
     "[1, {\"severity\": \"Critical \", \"title\": \" A \"}, \"x\", {\"line\": \"4\"}]",
     SeverityIssues, LineIssues}

ObjectReplies ==
    {"{" \o Join(<<"\"summary\": \" ok \"">> \o sc \o is, ", ") \o "}" :
        sc \in {<< >>} \cup {<<"\"score\": " \o t>> : t \in ScoreTexts},
        is \in {<< >>} \cup {<<"\"issues\": " \o t>> : t \in IssueTexts}}

OtherReplies ==
    {"[]", "[1, 2]", "42", "null", "true", "\"text\"", "3.5",
     "", "   ", "not json", "{", "{\"score\": 7,}", "{\"score\": 7} trailing",
     "Here is the review: {\"score\": 7}",
     "NaN", "  not json  ", "~~~json\nnot json\n~~~", Rep("x", FALLBACK_LEN + 100),
     "  ~~~json\n" \o Rep("y", FALLBACK_LEN) \o "\n~~~"}

FencedReplies ==
    {"~~~json\n{\"summary\": \"OK\", \"score\": 5, \"issues\": []}\n~~~",
     "~~~\n{\"score\": 5}\n~~~",
     "Sure!\n~~~json\n{\"score\": 5}\n~~~\nDone.",
     "~~~json\n[5]\n~~~",
     "~~~json\n{\"summary\": \"use ~~~ fences\", \"score\": 5}\n~~~",
     "{\"summary\": \"use ~~~ fences\", \"score\": 5}"}

RawReplies == ObjectReplies \cup OtherReplies \cup FencedReplies

\* parse_review_response has been called with a raw reply.
InitParse ==
    \E raw \in RawReplies :
        /\ cache = << >>
        /\ call = Call("parse_review_response", raw, NoConfig, NoNet, FALSE)
        /\ outcome = NoOutcome
        /\ posts = 0
        /\ ncalls = 0
        /\ review_prompt = ""
        /\ exit_status = NoExit
        /\ threads = NoThreads

\* parse_review_response(raw) runs to its end.
ParseReviewResponse ==
    /\ call.op = "parse_review_response"
    /\ outcome.kind = "none"
    /\ outcome' = parse_review_response(call.text) @@ [path |-> "parse"]
    /\ ncalls' = ncalls + 1
    /\ UNCHANGED <<cache, call, posts, review_prompt, exit_status, threads>>

NextParse == ParseReviewResponse

SpecParse == InitParse /\ [][NextParse]_vars

(***************************************************************************)
(* parse_diff applied to diff texts: every text of up to MaxDiffLines      *)
(* lines drawn from headers (well formed, without " b/", with nothing      *)
(* after it, with two of them), hunk markers, added and removed lines,     *)
(* file markers, context and the empty line.                               *)
(***************************************************************************)
DiffLines ==
    {"diff --git a/x b/x", "diff --git a/y b/y", "diff --git a/x b/", "diff --git x",
     "diff --git a/p b/q b/r", "@@ -1 +1 @@", "+new", "-old", "+++ b/x", "--- a/x",
     " ctx", ""}

\* Longer texts: the output of git for one changed file and for two, lines
\* before the first header, a header with nothing after it, and added and
\* removed lines whose text begins with a marker character or is empty.
LongDiffTexts ==
    {"diff --git a/x b/x\nindex 1..2 100644\n--- a/x\n+++ b/x\n@@ -1,3 +1,4 @@\n ctx\n-old\n+new\n+more\n",
     "diff --git a/x b/x\n--- a/x\n+++ b/x\n@@ -1 +1 @@\n-a\n+b\ndiff --git a/y b/y\n@@ -2 +2 @@\n+c\n-d\n+e",
     "warning: LF\n+early\ndiff --git a/x b/x\ndiff --git a/y b/y\n+new\n-old",
     "diff --git a/x b/x\n++x\n--y\n+\n-\n\n+ @@\n++++\n----\n+-\n-+",
     "+a\n-b\n@@ -1 +1 @@\n ctx",
     "diff --git a/x b/x\ndiff --git a/y b/y\ndiff --git a/z b/z",
     "diff --git a/x b/y b/x b/y\n--- a/x b/y\n+++ b/x b/y\n@@ -1 +1 @@\n-old\n+new",
     "diff --git a/src/a.py b/src/a.py\n+new\ndiff --git nothing\n-old"}

DiffTexts ==
    {Join(lines, "\n") : lines \in UNION {[1..n -> DiffLines] : n \in 0..MaxDiffLines}}
        \cup LongDiffTexts

\* parse_diff has been called with a diff text.
InitDiff ==
    \E diff_text \in DiffTexts :
        /\ cache = << >>
        /\ call = Call("parse_diff", diff_text, NoConfig, NoNet, TRUE)
        /\ outcome = NoOutcome
        /\ posts = 0
        /\ ncalls = 0
        /\ review_prompt = ""
        /\ exit_status = NoExit
        /\ threads = NoThreads

\* parse_diff(diff_text) runs to its end.
ParseDiff ==
    /\ call.op = "parse_diff"
    /\ outcome.kind = "none"
    /\ outcome' = Returned(parse_diff(call.text)) @@ [path |-> "diff"]
    /\ ncalls' = ncalls + 1
    /\ UNCHANGED <<cache, call, posts, review_prompt, exit_status, threads>>

NextDiff == ParseDiff

SpecDiff == InitDiff /\ [][NextDiff]_vars

(***************************************************************************)
(* call_llm run by several threads of one process, statement by statement. *)
(* A thread is at one of the statements that touch _response_cache or the  *)
(* network, with its locals; another thread may run between any two of     *)
(* them.  The module has no lock: `locked` tells whether the threads run   *)
(* the sequence from the membership check to the return under a mutual-    *)
(* exclusion lock, `holder` is the thread that holds it (0: none).         *)
(***************************************************************************)
Threads == {1, 2}

\* invocations of call_llm the threads start, all together
MaxThreadCalls == 3

\* The cache after n fetches of the prompts p1..pn for the model m1.
Filled(n) ==
    [i \in 1..n |-> [key |-> _get_cache_key(PromptNo(i), "m1"), value |-> JStr("r1")]]

\* The prompts the threads send: the oldest cached one and two new ones.
ThreadPrompts == {PromptNo(1), PromptNo(MAX_CACHE_SIZE + 1), PromptNo(MAX_CACHE_SIZE + 2)}

\* What the network does to a thread's request.
ThreadNets ==
    {Always(JsonResponse(200, "r2", ChatDoc(JStr("r2")))), Always(TextResponse(401, "denied"))}

\* A thread outside call_llm.
IdleThread ==
    [pc |-> "idle", prompt |-> "", net |-> NoNet, cache_key |-> "", content |-> JNull,
     posts |-> 0, di_used |-> 0, oldest_key |-> ""]

\* Mutant of CacheOldestKey: the key inserted last.
CacheNewestKey(d) == d[Len(d)].key

\* next(it) for it = iter(d) taken on d as it is now: the key inserted first
CacheOldestKey(d) == d[1].key

\* del d[key]
CacheDel(d, key) ==
    LET keep(e) == e.key # key IN SelectSeq(d, keep)

\* The threads start with a cache that 49 or 50 fetches have filled, with or
\* without a lock around the cache sequence.
InitThreads ==
    \E n \in {MAX_CACHE_SIZE - 1, MAX_CACHE_SIZE}, locked \in BOOLEAN :
        /\ cache = Filled(n)
        /\ call = Call("none", "", NoConfig, NoNet, FALSE)
        /\ outcome = NoOutcome
        /\ posts = 0
        /\ ncalls = 0
        /\ review_prompt = ""
        /\ exit_status = NoExit
        /\ threads = [locked |-> locked, holder |-> 0, of |-> [t \in Threads |-> IdleThread]]

\* Thread t is at statement pc.
At(t, pc) == threads.of[t].pc = pc

\* Thread t goes on to statement pc with the locals changed as in `with`.
Goto(t, pc, with) ==
    /\ threads' = [threads EXCEPT !.of[t] = with @@ [pc |-> pc] @@ threads.of[t]]
    /\ UNCHANGED <<call, outcome, posts, ncalls, review_prompt, exit_status>>

\* Thread t leaves call_llm with the result res, and gives up the lock.
Leave(t, res, path) ==
    /\ threads' = [threads EXCEPT !.of[t] = IdleThread, !.holder = 0]
    /\ call' = Call("call_llm", threads.of[t].prompt, BaseConfig, threads.of[t].net, FALSE)
    /\ outcome' = res @@ [path |-> path]
    /\ posts' = threads.of[t].posts
    /\ UNCHANGED <<ncalls, review_prompt, exit_status>>

\* call_llm(prompt, config) is entered: the configuration is validated and the
\* cache key computed (lines 197-199).
ThreadStart(t) ==
    \E prompt \in ThreadPrompts, net \in ThreadNets :
        /\ At(t, "idle")
        /\ ncalls < MaxThreadCalls
        /\ _validate_api_config(BaseConfig).exc = ""
        /\ threads' = [threads EXCEPT !.of[t] =
                [IdleThread EXCEPT !.pc = "check", !.prompt = prompt, !.net = net,
                    !.cache_key = _get_cache_key(prompt, _validate_api_config(BaseConfig).model)]]
        /\ ncalls' = ncalls + 1
        /\ UNCHANGED <<cache, call, outcome, posts, review_prompt, exit_status>>

\* `if cache_key in _response_cache` (line 200); under a lock, the thread
\* takes it first.
ThreadCheck(t) ==
    /\ At(t, "check")
    /\ threads.locked => threads.holder = 0
    /\ threads' = [threads EXCEPT
            !.of[t].pc = IF CacheHas(cache, threads.of[t].cache_key) THEN "read" ELSE "post",
            !.holder = IF threads.locked THEN t ELSE 0]
    /\ UNCHANGED <<cache, call, outcome, posts, ncalls, review_prompt, exit_status>>

\* `return _response_cache[cache_key]` (line 202): KeyError when the entry has
\* gone since the check.
ThreadRead(t) ==
    /\ At(t, "read")
    /\ IF CacheHas(cache, threads.of[t].cache_key)
       THEN Leave(t, Returned(CacheGet(cache, threads.of[t].cache_key)), "hit")
       ELSE Leave(t, Raised("KeyError", threads.of[t].cache_key, FALSE), "unhandled")
    /\ UNCHANGED cache

\* The try block up to the content (lines 207-218).
ThreadPost(t) ==
    LET sent == SessionPost(threads.of[t].net)
        failed == HandleError(IF sent.exc # "" THEN sent.exc
                              ELSE IF RaisesForStatus(sent.resp) THEN "HTTPError"
                              ELSE "JSONDecodeError", sent.resp)
        content == _extract_response_text(sent.resp.json)
    IN  /\ At(t, "post")
        /\ IF sent.exc # "" \/ RaisesForStatus(sent.resp) \/ ~sent.resp.decodes
           THEN /\ threads' = [threads EXCEPT !.of[t] = IdleThread, !.holder = 0]
                /\ call' = Call("call_llm", threads.of[t].prompt, BaseConfig,
                                threads.of[t].net, FALSE)
                /\ outcome' = failed.res @@ [path |-> failed.path]
                /\ posts' = sent.posts
                /\ UNCHANGED <<ncalls, review_prompt, exit_status>>
           ELSE IF content.kind = "raise"
           THEN /\ threads' = [threads EXCEPT !.of[t] = IdleThread, !.holder = 0]
                /\ call' = Call("call_llm", threads.of[t].prompt, BaseConfig,
                                threads.of[t].net, FALSE)
                /\ outcome' = content @@ [path |-> "shape"]
                /\ posts' = sent.posts
                /\ UNCHANGED <<ncalls, review_prompt, exit_status>>
           ELSE Goto(t, "size", [content |-> content.value, posts |-> sent.posts])
        /\ UNCHANGED cache

\* `if len(_response_cache) >= MAX_CACHE_SIZE` (line 220)
ThreadSize(t) ==
    /\ At(t, "size")
    /\ Goto(t, IF Len(cache) >= MAX_CACHE_SIZE THEN "iter" ELSE "store", << >>)
    /\ UNCHANGED cache

\* `iter(_response_cache)` (line 221): the iterator notes the size of the dict
ThreadIter(t) ==
    /\ At(t, "iter")
    /\ Goto(t, "next", [di_used |-> Len(cache)])
    /\ UNCHANGED cache

\* `oldest_key = next(...)` (line 221): RuntimeError when the dict has changed
\* size since iter()
ThreadNext(t) ==
    /\ At(t, "next")
    /\ IF Len(cache) # threads.of[t].di_used
       THEN Leave(t, Raised("RuntimeError", "dictionary changed size during iteration",
                            FALSE), "unhandled")
       ELSE Goto(t, "del", [oldest_key |-> CacheOldestKey(cache)])
    /\ UNCHANGED cache

\* `del _response_cache[oldest_key]` (line 222): KeyError when the entry has
\* gone since next()
ThreadDel(t) ==
    /\ At(t, "del")
    /\ IF CacheHas(cache, threads.of[t].oldest_key)
       THEN /\ cache' = CacheDel(cache, threads.of[t].oldest_key)
            /\ Goto(t, "store", << >>)
       ELSE /\ UNCHANGED cache
            /\ Leave(t, Raised("KeyError", threads.of[t].oldest_key, FALSE), "unhandled")

\* `_response_cache[cache_key] = content; return content` (lines 223-225)
ThreadStore(t) ==
    /\ At(t, "store")
    /\ cache' = CacheSet(cache, threads.of[t].cache_key, threads.of[t].content)
    /\ Leave(t, Returned(threads.of[t].content), "ok")

NextThreads ==
    \E t \in Threads :
        \/ ThreadStart(t)
        \/ ThreadCheck(t)
        \/ ThreadRead(t)
        \/ ThreadPost(t)
        \/ ThreadSize(t)
        \/ ThreadIter(t)
        \/ ThreadNext(t)
        \/ ThreadDel(t)
        \/ ThreadStore(t)

SpecThreads == InitThreads /\ [][NextThreads]_vars

(***************************************************************************)
(* Properties of call_llm.                                                 *)
(***************************************************************************)
\* The model name a configuration asks for.
ModelOf(config) == IF config.model.set THEN config.model.val ELSE DEFAULT_MODEL

\* The cache holds an entry for (model, prompt).
Cached(d, model, prompt) ==
    \E i \in 1..Len(d) : d[i].key = Sha256(model \o ":" \o prompt)

CachedText(d, model, prompt) ==
    d[CHOOSE i \in 1..Len(d) : d[i].key = Sha256(model \o ":" \o prompt)].value

\* A text made of slashes only (the empty text included).
OnlySlashes(s) == \A i \in 1..Len(s) : CharAt(s, i) = "/"

EmptyBaseUrl(config) == config.base_url.set /\ OnlySlashes(config.base_url.val)

EmptyModel(config) == config.model.set /\ config.model.val = ""

\* This step is an invocation of call_llm.
CallLlmStep == ncalls' = ncalls + 1 /\ call'.op = "call_llm"

\* C2, as stated: once (model, prompt) is cached, a later send with the same
\* prompt and model returns the cached text and makes no network call, whatever
\* the other configuration fields are.
C2_WarmSendReturnsCachedText ==
    [][(CallLlmStep /\ Cached(cache, ModelOf(call'.config), call'.text))
        => /\ outcome'.kind = "return"
           /\ outcome'.value = CachedText(cache, ModelOf(call'.config), call'.text)
           /\ posts' = 0]_vars

\* C2, amended: once (model, prompt) is cached, a later send with the same prompt
\* and model makes no network call; it returns the cached text when its base URL
\* is not empty, whatever api_key, max_tokens and temperature are, and fails with
\* the configuration failure when its base URL is empty.
C2_WarmSendMakesNoNetworkCall ==
    [][(CallLlmStep /\ Cached(cache, ModelOf(call'.config), call'.text))
        => /\ posts' = 0
           /\ cache' = cache
           /\ IF EmptyBaseUrl(call'.config)
              THEN outcome'.kind = "raise" /\ outcome'.exc = "RuntimeError"
              ELSE /\ outcome'.kind = "return"
                   /\ outcome'.value =
                        CachedText(cache, ModelOf(call'.config), call'.text)]_vars

\* A send answered from the cache although the server would now answer
\* otherwise and the configured max_tokens is no number.
C2_Witness ==
    /\ call.op = "call_llm"
    /\ call.config.max_tokens = Set("lots")
    /\ outcome.kind = "return"
    /\ posts = 0
    /\ Cached(cache, ModelOf(call.config), call.text)

\* C3: over any sequence of sends the cache holds at most 50 entries with
\* distinct keys, in the order their fetches succeeded: a successful fetch
\* appends its entry, after dropping the first-inserted entry when the cache
\* is full; a hit, a failed send and a rejected one leave the cache as it was.
C3_CacheIsInsertionOrderedWindow ==
    [][CallLlmStep
        => /\ Len(cache') <= MAX_CACHE_SIZE
           /\ \A i, j \in 1..Len(cache') : cache'[i].key = cache'[j].key => i = j
           /\ IF outcome'.kind = "return" /\ posts' > 0
              THEN cache' =
                    Append(IF Len(cache) = MAX_CACHE_SIZE THEN Tail(cache) ELSE cache,
                           [key |-> Sha256(ModelOf(call'.config) \o ":" \o call'.text),
                            value |-> outcome'.value])
              ELSE cache' = cache]_vars

\* A full cache that has lost its first-inserted entry and kept the second.
C3_Witness ==
    /\ Len(cache) = MAX_CACHE_SIZE
    /\ ~Cached(cache, "m1", PromptNo(1))
    /\ cache[1].key = Sha256("m1:" \o PromptNo(2))
    /\ outcome.kind = "return"
    /\ posts > 0

\* C4, as stated: a configuration whose base URL or model is absent or empty makes
\* the send fail with the configuration failure before any network call.
C4_MissingOrEmptyIsRejected ==
    (/\ call.op = "call_llm"
     /\ \/ ~call.config.base_url.set \/ EmptyBaseUrl(call.config)
        \/ ~call.config.model.set \/ EmptyModel(call.config))
    => (outcome.kind = "raise" /\ outcome.path = "config" /\ posts = 0)

\* C4, amended: the send fails with the configuration failure (RuntimeError),
\* before any network call, exactly when the configured base URL is empty once
\* its trailing slashes are removed or the configured model is empty; an absent
\* key takes its default and is not rejected.
C4_EmptyValueIsRejected ==
    call.op = "call_llm"
    => IF EmptyBaseUrl(call.config) \/ EmptyModel(call.config)
       THEN /\ outcome.kind = "raise"
            /\ outcome.exc = "RuntimeError"
            /\ outcome.msg \in {"No API base URL configured", "No model configured"}
            /\ posts = 0
       ELSE outcome.msg \notin {"No API base URL configured", "No model configured"}

\* A send rejected for a base URL of "/" without a network call.
C4_Witness ==
    /\ call.op = "call_llm"
    /\ call.config.base_url = Set("/")
    /\ outcome.kind = "raise"
    /\ outcome.msg = "No API base URL configured"
    /\ posts = 0

\* The response the POST of the last send ended with, when it ended with one.
GotResponse == call.op = "call_llm" /\ posts > 0 /\ SessionPost(call.net).exc = ""

FinalResponse == SessionPost(call.net).resp

\* C5: when the response to the POST has a non-2xx status, the failure raised
\* carries that status code and that body text.
C5_HttpFailureCarriesStatusAndBody ==
    (GotResponse /\ (FinalResponse.status < 200 \/ FinalResponse.status > 299))
    => /\ outcome.kind = "raise"
       /\ outcome.msg = "API error " \o IntToStr(FinalResponse.status) \o ": "
                            \o FinalResponse.text

\* C7: what call_llm returns, and what it stores in the cache, is text.
C7_ReturnsAndCachesText ==
    /\ (call.op = "call_llm" /\ outcome.kind = "return") => outcome.value.t = "str"
    /\ \A i \in 1..Len(cache) : cache[i].value.t = "str"

(***************************************************************************)
(* Properties of review_code and run_review.                               *)
(***************************************************************************)
\* C6: every failure of call_llm after it went to the network -- TLS error,
\* connection error, timeout, error status, retries used up on a retryable
\* status, invalid JSON body, wrong response shape -- is a logged RuntimeError,
\* which run_review turns into exit status 1; none escapes as another type.
C6_FailuresAreLoggedRuntimeErrors ==
    (/\ call.op = "run_review"
     /\ posts > 0
     /\ outcome.kind = "raise"
     /\ outcome.path # "parse")
    => (outcome.exc = "RuntimeError" /\ outcome.logged /\ exit_status = 1)

\* A text of blanks only (the empty text included).
Blank(s) == \A i \in 1..Len(s) : CharAt(s, i) \in {" ", "\n", "\t", "\r"}

\* This step is an invocation of review_code, directly or by run_review.
ReviewStep == ncalls' = ncalls + 1 /\ call'.op \in {"review_code", "run_review"}

\* C8: review_code rejects an empty or whitespace-only text with ValueError;
\* no prompt is built, no attempt goes on the wire and the cache is left as it
\* was, whatever it holds and whatever the configuration and the server are.
C8_BlankInputIsRejected ==
    [][(ReviewStep /\ Blank(call'.text))
        => /\ outcome'.kind = "raise"
           /\ outcome'.exc = "ValueError"
           /\ outcome'.path = "input"
           /\ review_prompt' = ""
           /\ posts' = 0
           /\ cache' = cache]_vars

\* A whitespace-only text rejected while the cache is warm and the request
\* would have succeeded.
C8_Witness ==
    /\ call.op = "review_code"
    /\ call.text = " \n\t "
    /\ call.config = BaseConfig
    /\ outcome.exc = "ValueError"
    /\ Len(cache) > 0
    /\ posts = 0

\* The text of a template up to its code field, which ends both templates.
TemplateHead(is_diff) ==
    Format(IF is_diff THEN DIFF_REVIEW_PROMPT ELSE REVIEW_PROMPT, "")

\* s[:n], written out
FirstChars(s, n) == IF Len(s) <= n THEN s ELSE SubSeq(s, 1, n)

\* s without its leading and trailing blanks
Trimmed(s) ==
    LET blank(i) == CharAt(s, i) \in {" ", "\n", "\t", "\r"}
        lead == CHOOSE k \in 0..Len(s) :
                    (\A i \in 1..k : blank(i)) /\ (k = Len(s) \/ ~blank(k + 1))
        trail == CHOOSE k \in 0..Len(s) :
                    (\A i \in 1..k : blank(Len(s) + 1 - i)) /\ (k = Len(s) \/ ~blank(Len(s) - k))
    IN  SubSeq(s, lead + 1, Len(s) - trail)

\* The last operation was review_code on a text it accepts.
ReviewedAccepted ==
    call.op \in {"review_code", "run_review"} /\ ~Blank(call.text)

\* C9, as stated: for an accepted text the prompt is the selected template with
\* the first 8000 characters of the input text (the whole text when shorter) at
\* the code position.
C9_PromptEmbedsInputPrefix ==
    ReviewedAccepted
    => review_prompt = TemplateHead(call.is_diff) \o FirstChars(call.text, MAX_CODE_CHARS)

\* C9, amended: for an accepted text the prompt is the selected template (the
\* diff template iff is_diff) with, at the code position, the first 8000
\* characters of the input text stripped of its leading and trailing
\* whitespace (all of the stripped text when it is shorter); no more than 8000
\* characters of the input reach the prompt.
C9_PromptEmbedsStrippedPrefix ==
    ReviewedAccepted
    => /\ review_prompt =
            TemplateHead(call.is_diff) \o FirstChars(Trimmed(call.text), MAX_CODE_CHARS)
       /\ Len(review_prompt) <= Len(TemplateHead(call.is_diff)) + MAX_CODE_CHARS
       /\ TemplateHead(TRUE) # TemplateHead(FALSE)

\* A diff longer than the limit once stripped, with blanks before it, reviewed.
C9_Witness ==
    /\ call.op = "review_code"
    /\ call.is_diff
    /\ CharAt(call.text, 1) = " "
    /\ Len(Trimmed(call.text)) > MAX_CODE_CHARS
    /\ outcome.kind = "return"
    /\ Len(review_prompt) = Len(TemplateHead(TRUE)) + MAX_CODE_CHARS

(***************************************************************************)
(* Properties of parse_review_response.                                    *)
(***************************************************************************)
\* C1: parse_review_response returns a ReviewResult for every raw reply and
\* raises nothing.
C1_ParseNeverFails ==
    (call.op = "parse_review_response" /\ outcome.kind # "none")
    => outcome.kind = "return"

(***************************************************************************)
(* Properties of parse_diff.                                               *)
(***************************************************************************)
\* The lines of the diff text parse_diff was applied to.
DiffTextLines == Split(call.text, "\n")

\* The positions of the `diff --git` header lines.
Headers == {i \in 1..Len(DiffTextLines) : StartsWith(DiffTextLines[i], "diff --git")}

\* The n-th header, and the position after the section it opens.
HeaderNo(n) == CHOOSE h \in Headers : Cardinality({g \in Headers : g <= h}) = n

SectionEnd(h) ==
    IF \E g \in Headers : g > h
    THEN MinOf({g \in Headers : g > h})
    ELSE Len(DiffTextLines) + 1

\* C10: when each of the k headers of a diff text is followed by at least one
\* line before the next header or the end, parse_diff returns k hunks, in header
\* order, the i-th hunk's content being the lines between the i-th header and
\* the next one (or the end) joined by newlines.
C10_OneHunkPerHeader ==
    (/\ call.op = "parse_diff"
     /\ outcome.kind = "return"
     /\ \A h \in Headers : SectionEnd(h) > h + 1)
    => /\ Len(outcome.value) = Cardinality(Headers)
       /\ \A n \in 1..Cardinality(Headers) :
            outcome.value[n].content =
                Join(SubSeq(DiffTextLines, HeaderNo(n) + 1, SectionEnd(HeaderNo(n)) - 1), "\n")

\* The n-th element of a set of positions, in increasing order.
Nth(S, n) == CHOOSE h \in S : Cardinality({g \in S : g <= h}) = n

\* The lines between the header at h and the next header or the end.
Section(h) == SubSeq(DiffTextLines, h + 1, SectionEnd(h) - 1)

\* C11: the hunks parse_diff returns are, in order, the sections of distinct
\* `diff --git` headers that are each followed by at least one line, the
\* content of a hunk being the lines of its section; so a header followed by no
\* line gives no hunk, a line before the first header is in no hunk, and a text
\* without a header gives no hunk.
C11_HunksComeFromHeadersWithContent ==
    (call.op = "parse_diff" /\ outcome.kind = "return")
    => \E S \in SUBSET Headers :
            /\ Cardinality(S) = Len(outcome.value)
            /\ \A n \in 1..Len(outcome.value) :
                    /\ SectionEnd(Nth(S, n)) > Nth(S, n) + 1
                    /\ outcome.value[n].content = Join(Section(Nth(S, n)), "\n")

\* Lines before the first header, a header followed at once by the next one,
\* and a header with two lines: one hunk, for the last header.
C11_Witness ==
    /\ call.op = "parse_diff"
    /\ outcome.kind = "return"
    /\ Cardinality(Headers) = 2
    /\ MinOf(Headers) > 1
    /\ SectionEnd(MinOf(Headers)) = MinOf(Headers) + 1
    /\ Len(outcome.value) = 1
    /\ outcome.value[1].file = "y"
    /\ outcome.value[1].content = "+new\n-old"

\* The lines of a section that carry the marker c once at their start and not
\* three times, in order, without that first character.
Marked(lines, c) ==
    LET is(l) == StartsWith(l, c) /\ ~StartsWith(l, c \o c \o c) /\ ~StartsWith(l, "@@")
        kept == SelectSeq(lines, is)
    IN  [i \in 1..Len(kept) |-> SubSeq(kept[i], 2, Len(kept[i]))]

\* C12: every hunk parse_diff returns belongs to a header section such that
\* content is the section's lines joined by newlines (every line raw),
\* added_lines is, in order, the section's lines that begin with + but not with
\* +++, without their first character, and removed_lines is the same for - and
\* ---; other lines are in content only.
C12_AddedAndRemovedLinesOfSection ==
    (call.op = "parse_diff" /\ outcome.kind = "return")
    => \E S \in SUBSET Headers :
            /\ Cardinality(S) = Len(outcome.value)
            /\ \A n \in 1..Len(outcome.value) :
                    /\ outcome.value[n].content = Join(Section(Nth(S, n)), "\n")
                    /\ outcome.value[n].added_lines = Marked(Section(Nth(S, n)), "+")
                    /\ outcome.value[n].removed_lines = Marked(Section(Nth(S, n)), "-")

\* A hunk whose section has added and removed lines that are empty or begin
\* with a marker character, a blank line, and the lines ++++ and ----.
C12_Witness ==
    /\ call.op = "parse_diff"
    /\ outcome.kind = "return"
    /\ Len(outcome.value) = 1
    /\ outcome.value[1].added_lines = <<"+x", "", " @@", "-">>
    /\ outcome.value[1].removed_lines = <<"-y", "", "+">>
    /\ outcome.value[1].content = "++x\n--y\n+\n-\n\n+ @@\n++++\n----\n+-\n-+"

(***************************************************************************)
(* Properties of the fields of a parsed reply.                             *)
(***************************************************************************)
\* What json.loads makes of the reply parse_review_response was applied to.
ReplyData == JsonLoads(_extract_json_from_response(call.text))

\* The reply is JSON of the standard grammar: Python's NaN and Infinity
\* literals are not in it.
StandardJson == ~Contains(call.text, "NaN") /\ ~Contains(call.text, "Infinity")

\* The reply decoded to an object whose issues, when present, are an array.
ParsedObject(data) ==
    /\ data.ok
    /\ data.v.t = "obj"
    /\ DictGet(data.v, "issues", JArr(<< >>)).t = "arr"

IsNumber(x) == x.t \in {"int", "float"}

\* The integer part of a number, clamped into 0..10; a number beyond the range
\* of a double is beyond 10.
ClampedIntegerPart(x) ==
    CASE x.t = "int" -> Clamp(x.v)
      [] x.v.sp = "inf" -> IF x.v.neg THEN 0 ELSE 10
      [] OTHER -> Clamp(FloatTrunc(x.v))

\* C13: for every reply that decodes to an object whose score is a JSON number
\* n, parse_review_response returns a ReviewResult whose score is the integer
\* part of n clamped into 0..10; and every ReviewResult it returns has a score
\* in 0..10.
C13_NumericScoreIsClamped ==
    LET numeric(data) ==
            /\ ParsedObject(data)
            /\ StandardJson
            /\ ObjHas(data.v, "score")
            /\ IsNumber(ObjGet(data.v, "score"))
        holds(data) ==
            numeric(data) =>
                /\ outcome.kind = "return"
                /\ outcome.value.score = ClampedIntegerPart(ObjGet(data.v, "score"))
    IN  (call.op = "parse_review_response" /\ outcome.kind # "none")
        => /\ holds(ReplyData)
           /\ outcome.kind = "return" => outcome.value.score \in 0..10

\* The JSON-object elements of the issues array of a decoded reply, in order.
ObjectItems(data) ==
    LET isObj(x) == x.t = "obj"
    IN  SelectSeq(DictGet(data.v, "issues", JArr(<< >>)).v, isObj)

\* The score of a decoded reply is absent or converts to an integer.
ScoreConverts(data) ==
    LET x == DictGet(data.v, "score", JInt(0)) IN x.t = "float" => x.v.sp = ""

\* The member of the enumeration a severity value names, info when it names
\* none: a string names the member it equals once its letters are put in lower
\* case and the blanks around it are dropped.
NamedSeverity(item) ==
    LET names(m) ==
            /\ ObjHas(item, "severity")
            /\ ObjGet(item, "severity").t = "str"
            /\ Strip(Lower(ObjGet(item, "severity").v)) = m
    IN  IF \E m \in Severity : names(m) THEN CHOOSE m \in Severity : names(m) ELSE "info"

\* C14: for a reply that decodes to an object with an issues array, the parse
\* returns, and the severity of each issue is the member its source value names
\* after trimming and case-folding, and info for every other value (unknown
\* string, missing key, value that is no string): no value is rejected.
C14_SeverityIsTotal ==
    LET holds(data, items) ==
            (ParsedObject(data) /\ ScoreConverts(data)) =>
                /\ outcome.kind = "return"
                /\ Len(outcome.value.issues) = Len(items)
                /\ \A k \in 1..Len(items) :
                        outcome.value.issues[k].severity = NamedSeverity(items[k])
    IN  (call.op = "parse_review_response" /\ outcome.kind # "none")
        => holds(ReplyData, ObjectItems(ReplyData))

\* The reply with every kind of severity value has been parsed.
C14_Witness ==
    /\ call.op = "parse_review_response"
    /\ outcome.kind = "return"
    /\ Len(outcome.value.issues) = 14
    /\ [k \in 1..14 |-> outcome.value.issues[k].severity] =
            <<"critical", "warning", "style", "info", "info", "info", "info",
              "info", "info", "info", "info", "info", "info", "info">>

\* C15: when the reply, its fence stripped, is not valid JSON,
\* parse_review_response returns the fallback ReviewResult: the fixed summary,
\* score 0, and one issue of severity info whose description is the first 500
\* characters of the raw reply as it was given.
C15_InvalidJsonGivesFallback ==
    LET invalid(data) == ~data.ok \/ ~StandardJson
    IN  (call.op = "parse_review_response" /\ outcome.kind # "none" /\ invalid(ReplyData))
        => /\ outcome.kind = "return"
           /\ outcome.value.summary = "Failed to parse review response."
           /\ outcome.value.score = 0
           /\ Len(outcome.value.issues) = 1
           /\ outcome.value.issues[1].severity = "info"
           /\ outcome.value.issues[1].description = FirstChars(call.text, FALLBACK_LEN)

\* A text inside a json fence, as a model wraps its reply.
Fenced(text) == JSON_FENCE \o "\n" \o text \o "\n" \o FENCE

\* C16: for every reply J that is the text of a JSON object, whatever its string
\* values contain, parse_review_response gives for J inside a json fence what
\* it gives for J itself.
C16_FenceIsTransparent ==
    LET isObject(j) == j.ok /\ j.v.t = "obj"
        same(wrapped) == (wrapped @@ [path |-> "parse"]) = outcome
    IN  (/\ call.op = "parse_review_response"
         /\ outcome.kind # "none"
         /\ isObject(JsonLoads(call.text)))
        => same(parse_review_response(Fenced(call.text)))

(***************************************************************************)
(* Properties of the HTTP session.                                         *)
(***************************************************************************)
\* An attempt that ended in a response with a status of the retry list.
ForcelistStatus(a) == a.kind = "resp" /\ a.status \in STATUS_FORCELIST

\* C17: a send makes at most 4 attempts, and makes another attempt only after a
\* response with status 429, 500, 502, 503 or 504: an attempt that ends in
\* another error status, in a network error or in a malformed body is the only
\* one.
C17_RetriesOnlyOnForcelistStatus ==
    (call.op = "call_llm" /\ posts > 0)
    => /\ posts <= RETRY_TOTAL + 1
       /\ \A i \in 1..(posts - 1) : ForcelistStatus(call.net[i])
       /\ posts < RETRY_TOTAL + 1 => ~ForcelistStatus(call.net[posts])

\* s ends with t.
EndsWith(s, t) == Len(t) <= Len(s) /\ SubSeq(s, Len(s) - Len(t) + 1, Len(s)) = t

\* The path P of a header line `diff --git a/P b/P`, which names the same path
\* on both sides; "" when the line is not of that form.
SamePath(header) ==
    LET n == (Len(header) - Len("diff --git a/") - Len(" b/")) \div 2
        path == SubSeq(header, Len(header) - n + 1, Len(header))
    IN  IF n > 0 /\ header = "diff --git a/" \o path \o " b/" \o path THEN path ELSE ""

\* The file a hunk must carry for the header line it comes from.
NamesFile(header, file) ==
    IF ~Contains(header, " b/") THEN file = "unknown"
    ELSE /\ EndsWith(header, " b/" \o file)
         /\ SamePath(header) # "" => file = SamePath(header)

\* C18: the file of every hunk parse_diff returns is the part of the hunk's
\* header line after the " b/" that separates the old path from the new one
\* (so the path P of a header `diff --git a/P b/P`), and "unknown" when the
\* header line has no " b/".
C18_FileIsSuffixAfterSeparator ==
    (call.op = "parse_diff" /\ outcome.kind = "return")
    => \E S \in SUBSET Headers :
            /\ Cardinality(S) = Len(outcome.value)
            /\ \A n \in 1..Len(outcome.value) :
                    /\ outcome.value[n].content = Join(Section(Nth(S, n)), "\n")
                    /\ NamesFile(DiffTextLines[Nth(S, n)], outcome.value[n].file)

\* C19: for every reply that decodes to an object whose score is absent or is
\* no JSON number (a string, true or false, null, an array, an object),
\* parse_review_response returns a ReviewResult whose score is 0.
C19_NonNumericScoreIsZero ==
    LET nonNumeric(data) ==
            /\ ParsedObject(data)
            /\ ObjHas(data.v, "score") => ~IsNumber(ObjGet(data.v, "score"))
    IN  (call.op = "parse_review_response" /\ outcome.kind # "none" /\ nonNumeric(ReplyData))
        => (outcome.kind = "return" /\ outcome.value.score = 0)

\* The line an issue may carry for its source object: the value of "line" when
\* it is a positive JSON integer, and none otherwise.
KeptLine(item) ==
    IF /\ ObjHas(item, "line")
       /\ ObjGet(item, "line").t = "int"
       /\ ObjGet(item, "line").v > 0
    THEN ObjGet(item, "line")
    ELSE JNull

\* C20: for a reply that decodes to an object with an issues array, the parse
\* returns, and the line of each issue is absent or a positive integer: it is
\* the source value when that is an integer, and absent for every other source
\* value (string, float, boolean, null, missing), none being converted.
C20_LineIsAbsentOrPositiveInteger ==
    LET holds(data, items) ==
            (ParsedObject(data) /\ ScoreConverts(data)) =>
                /\ outcome.kind = "return"
                /\ Len(outcome.value.issues) = Len(items)
                /\ \A k \in 1..Len(items) :
                        /\ outcome.value.issues[k].line = KeptLine(items[k])
                        /\ \/ outcome.value.issues[k].line = JNull
                           \/ /\ outcome.value.issues[k].line.t = "int"
                              /\ outcome.value.issues[k].line.v > 0
    IN  (call.op = "parse_review_response" /\ outcome.kind # "none")
        => holds(ReplyData, ObjectItems(ReplyData))

\* C21: for a reply that decodes to an object whose issues are an array, the
\* parse returns, and the issues of the ReviewResult are the JSON-object
\* elements of the array, each converted by _parse_issue, in the order of the
\* array; the elements that are no object are left out and change nothing else.
C21_IssuesAreObjectElementsInOrder ==
    LET holds(data, items) ==
            (ParsedObject(data) /\ ScoreConverts(data)) =>
                /\ outcome.kind = "return"
                /\ outcome.value.issues = [k \in 1..Len(items) |-> _parse_issue(items[k])]
    IN  (call.op = "parse_review_response" /\ outcome.kind # "none")
        => holds(ReplyData, ObjectItems(ReplyData))

\* An array of a number, an object, a string and an object has been parsed
\* into the two issues of its objects, in their order.
C21_Witness ==
    /\ call.op = "parse_review_response"
    /\ outcome.kind = "return"
    /\ Contains(call.text, "[1, {")
    /\ Len(outcome.value.issues) = 2
    /\ outcome.value.issues[1].severity = "critical"
    /\ outcome.value.issues[1].title = "A"
    /\ outcome.value.issues[2].severity = "info"
    /\ outcome.value.issues[2].title = "Untitled"

(***************************************************************************)
(* Properties of the cache key.                                            *)
(***************************************************************************)
\* C22: a send is answered from the cache only with text that was cached for
\* its own model and prompt: when the cache holds nothing but the entry the
\* preceding send fetched and stored, a send that is answered from it has the
\* model and the prompt of that preceding send.
C22_CacheEntryIsPerModelAndPrompt ==
    [][(/\ call.op = "call_llm"
        /\ outcome.path = "ok"
        /\ Len(cache) = 1
        /\ call'.op = "call_llm"
        /\ ncalls' = ncalls + 1
        /\ outcome'.path = "hit")
       => (/\ ModelOf(call'.config) = ModelOf(call.config)
           /\ call'.text = call.text)]_vars

(***************************************************************************)
(* Properties of the cache under threads.                                  *)
(***************************************************************************)
\* C23: with the sequence from the membership check to the insertion under a
\* lock, the cache never holds more than 50 entries and an entry leaves it only
\* as the oldest one; without the lock, threads that interleave reach a cache
\* of more than 50 entries (the witness).
C23_LockedCacheKeepsItsWindow ==
    /\ [](threads.locked => Len(cache) <= MAX_CACHE_SIZE)
    /\ [][(threads.locked /\ Len(cache') < Len(cache)) => cache' = Tail(cache)]_vars

\* Without a lock, two threads have both found room in a cache of 49 entries
\* and both inserted: 51 entries.
C23_Witness ==
    /\ ~threads.locked
    /\ Len(cache) > MAX_CACHE_SIZE
    /\ \A t \in Threads : threads.of[t].pc = "idle"

====
